---------------------------- MODULE Spec2Model ----------------------------
(***************************************************************************)
(* Model of src/main.go: the product scraper's pagination loop             *)
(* (scrapeProducts), its page extractor (extractProductsFromPage with the  *)
(* extractJSContent script), the deduplicating append                      *)
(* (addProductsWithoutDuplicates) and the exit path of main.               *)
(*                                                                         *)
(* A URL is the sequence of its path segments: <<>> is the empty string,   *)
(* <<"products","a">> is ".../products/a".  A product is a record of its   *)
(* URL and its name (the name stands for all the non-key fields).          *)
(***************************************************************************)
EXTENDS Integers, Sequences, FiniteSets, TLC

\* ------------------------------------------------------------------ bounds
\* Largest maxProducts handed to scrapeProducts.
MaxBudget == 2
\* Largest number of .grid-product containers on one rendered page.
MaxPageLen == 2
\* The page counter is stopped one page after the last page a budget of
\* MaxBudget can need; a run that reaches it stalls without returning.
PageCap == MaxBudget + 1

EmptyUrl == << >>

\* What the .map() of extractJSContent can build from the containers of a page.
RawRecords ==
    { [url |-> <<"products", "a">>, name |-> "n1"],
      [url |-> <<"products", "a">>, name |-> "n2"],
      [url |-> <<"products", "b">>, name |-> "n1"],
      [url |-> <<"products", "c">>, name |-> "n1"],
      [url |-> EmptyUrl, name |-> "n1"],
      [url |-> EmptyUrl, name |-> "n2"],
      [url |-> <<"collections", "all">>, name |-> "n1"] }

RECURSIVE SeqsUpTo(_, _)
SeqsUpTo(S, n) ==
    IF n = 0 THEN { << >> }
    ELSE LET shorter == SeqsUpTo(S, n - 1)
         IN  shorter \cup { Append(s, x) : s \in { t \in shorter : Len(t) = n - 1 }, x \in S }

RawPages == SeqsUpTo(RawRecords, MaxPageLen)

\* ------------------------------------------------------------ error values
Nil == [failed |-> FALSE, page |-> 0, cause |-> 0]
\* fmt.Errorf("failed to navigate or evaluate page %d: %w", page, err): the
\* page index the inner message names
ErrNavigate(p) == p
\* (slip: the page is reported counting from 0)
ErrScrapingFromZero(p) == [failed |-> TRUE, page |-> p - 1, cause |-> ErrNavigate(p)]
\* fmt.Errorf("error scraping page %d: %w", page, err)
ErrScraping(p) == [failed |-> TRUE, page |-> p, cause |-> ErrNavigate(p)]

\* --------------------------------------------------------- extractJSContent
\* p.url (JavaScript truthiness of a string: non-empty)
Truthy(url) == url # EmptyUrl
\* p.url.includes('/products/')
IncludesProducts(url) == \E i \in DOMAIN url : url[i] = "products"

\* (slip: the filter is left out)
KeepAll(p) == TRUE
\* .filter(p => p.url && p.url.includes('/products/'))
JSFilter(p) == Truthy(p.url) /\ IncludesProducts(p.url)

RECURSIVE FilterSeq(_)
FilterSeq(s) ==
    IF s = << >> THEN << >>
    ELSE IF JSFilter(Head(s)) THEN << Head(s) >> \o FilterSeq(Tail(s))
         ELSE FilterSeq(Tail(s))

\* The value chromedp.Evaluate stores in pageProducts for a rendered page.
extractJSContent(raw) == FilterSeq(raw)

\* ------------------------------------------------------------ scrapeProducts
\* (slip: <= for <)
LoopCondLax(n, max) == n <= max
\* for len(products) < maxProducts
LoopCond(n, max) == n < max

\* (slip: the empty-page test is left out)
NeverEmpty(pp) == FALSE
\* if len(pageProducts) == 0
PageIsEmpty(pp) == Len(pp) = 0

\* (slip: len(products) == 0 for len(products) > 0)
StopOnlyWhenEmpty(added, n) == added = 0 /\ n = 0
\* (slip: the no-new-products test is left out)
NeverStopNoNew(added, n) == FALSE
\* if productsAdded == 0 && len(products) > 0
ShouldStopNoNew(added, n) == added = 0 /\ n > 0

\* (slip: the page is fetched again)
SamePage(p) == p
\* page++
IncPage(p) == p + 1

\* (slip: return products, fmt.Errorf(...))
PartialFailure(products, p) == [products |-> products, err |-> ErrScraping(p)]
\* return nil, fmt.Errorf(...); a nil slice is the empty sequence
FailureResult(products, p) == [products |-> << >>, err |-> ErrScraping(p)]

\* return products, nil
SuccessResult(products) == [products |-> products, err |-> Nil]

\* ---------------------------------------------- addProductsWithoutDuplicates
\* (slip: the budget is taken one record short)
BudgetOneShort(n, max) == n >= max - 1
\* (slip: > for >=)
BudgetOffByOne(n, max) == n > max
\* if len(*products) >= maxProducts
BudgetExhausted(n, max) == n >= max

\* (slip: the lookup always hits)
AlwaysSeen(seen, url) == TRUE
\* (slip: the lookup always misses)
NeverSeen(seen, url) == FALSE
\* _, exists := seen[product.URL]
SeenExists(seen, url) == url \in seen

\* (slip: the URL is not recorded)
NotMarked(seen, url) == seen
\* seen[product.URL] = struct{}{}
MarkSeen(seen, url) == seen \cup { url }

\* (slip: the product is written over the last one)
OverwriteLast(products, product) ==
    IF products = << >> THEN << product >>
    ELSE [products EXCEPT ![Len(products)] = product]
\* (slip: the product is put in front)
Prepend(products, product) == << product >> \o products
\* *products = append(*products, product)
AppendProduct(products, product) == Append(products, product)

\* ---------------------------------------------------------------------- main
\* (slip: the error is not looked at)
IgnoreError(err) == FALSE
\* if err != nil { log.Fatalf(...) }
IsFatal(err) == err.failed

\* for i, product := range products { if i >= maxProducts { break } ... }
RECURSIVE Take(_, _)
Take(s, n) == IF n <= 0 \/ s = << >> THEN << >> ELSE << Head(s) >> \o Take(Tail(s), n - 1)

\* What outputResults writes to standard output.
outputResults(products, outputJSON, max) ==
    IF outputJSON
    THEN [kind |-> "json", page |-> 0, catalog |-> products]
    ELSE [kind |-> "text", page |-> 0, catalog |-> Take(products, max)]

\* fmt.Printf("No new products found on page %d, stopping\n", page)
NoNewMessage(p) == [kind |-> "nonew", page |-> p, catalog |-> << >>]

\* ------------------------------------------------------------------ history
UrlsOf(s) == { s[i].url : i \in DOMAIN s }
FirstIndex(s, u) == CHOOSE i \in DOMAIN s : s[i].url = u /\ \A j \in 1..(i - 1) : s[j].url # u

\* The first-observation table after call number `call` has returned `records`.
Observe(table, records, call) ==
    [ u \in (DOMAIN table) \cup UrlsOf(records) |->
        IF u \in DOMAIN table THEN table[u]
        ELSE [call |-> call, pos |-> FirstIndex(records, u),
              rec |-> records[FirstIndex(records, u)]] ]

VARIABLES
    maxProducts,   \* the budget main hands to scrapeProducts
    outputJSON,    \* the -json flag
    pc,            \* position of the single thread of control
    products,      \* scrapeProducts: the catalog accumulated so far
    seen,          \* scrapeProducts: the dedup set
    page,          \* scrapeProducts: the page counter
    dom,           \* the records the browser's current page renders
    pageProducts,  \* the result of the last extractProductsFromPage
    idx,           \* addProductsWithoutDuplicates: position of the range loop
    addedCount,    \* addProductsWithoutDuplicates: addedCount / productsAdded
    ret,           \* the pair scrapeProducts returned
    stdout,        \* what was written to standard output
    exitCode,      \* the process exit status (-1 while running)
    calls,         \* history: the page index of every extractProductsFromPage call
    lastOk,        \* history: whether the last call returned without error
    before,        \* history: the catalog as it was when the last call was made
    firstAt        \* history: for every URL a call has returned, the call and the
                   \* position at which it was first returned, and the record there

hist == << calls, lastOk, before, firstAt >>

vars == << maxProducts, outputJSON, pc, products, seen, page, dom, pageProducts,
           idx, addedCount, ret, stdout, exitCode, calls, lastOk, before, firstAt >>

Init ==
    /\ maxProducts \in 0..MaxBudget
    /\ outputJSON \in BOOLEAN
    /\ pc = "loop"
    /\ products = << >>
    /\ seen = {}
    /\ page = 1
    /\ dom = << >>
    /\ pageProducts = << >>
    /\ idx = 1
    /\ addedCount = 0
    /\ ret = SuccessResult(<< >>)
    /\ stdout = << >>
    /\ exitCode = -1
    /\ calls = << >>
    /\ lastOk = TRUE
    /\ before = << >>
    /\ firstAt = [u \in {} |-> 0]

\* Line 50, condition false: fall through to `return products, nil`.
LoopExit ==
    /\ pc = "loop"
    /\ ~LoopCond(Len(products), maxProducts)
    /\ pc' = "return"
    /\ UNCHANGED << maxProducts, outputJSON, products, seen, page, dom, pageProducts,
                    idx, addedCount, ret, stdout, exitCode, hist >>

\* Lines 50-52, 77-91: the page loads and the script's result is decoded.
ExtractOk ==
    /\ pc = "loop"
    /\ LoopCond(Len(products), maxProducts)
    /\ page <= PageCap
    /\ \E raw \in RawPages :
         /\ dom' = raw
         /\ pageProducts' = extractJSContent(raw)
         /\ firstAt' = Observe(firstAt, extractJSContent(raw), Len(calls) + 1)
    /\ calls' = Append(calls, page)
    /\ lastOk' = TRUE
    /\ before' = products
    /\ pc' = "fetched"
    /\ UNCHANGED << maxProducts, outputJSON, products, seen, page, idx, addedCount,
                    ret, stdout, exitCode >>

\* Lines 50-55, 87-89: chromedp.Run fails; scrapeProducts returns nil and the error.
ExtractFail ==
    /\ pc = "loop"
    /\ LoopCond(Len(products), maxProducts)
    /\ page <= PageCap
    /\ calls' = Append(calls, page)
    /\ lastOk' = FALSE
    /\ before' = products
    /\ ret' = FailureResult(products, page)
    /\ pc' = "returned"
    /\ UNCHANGED << maxProducts, outputJSON, products, seen, page, dom, pageProducts,
                    idx, addedCount, stdout, exitCode, firstAt >>

\* Lines 57-60: an empty page breaks out of the loop.
EmptyPageStop ==
    /\ pc = "fetched"
    /\ PageIsEmpty(pageProducts)
    /\ pc' = "return"
    /\ UNCHANGED << maxProducts, outputJSON, products, seen, page, dom, pageProducts,
                    idx, addedCount, ret, stdout, exitCode, hist >>

\* Lines 62, 94-95: enter addProductsWithoutDuplicates.
AddEnter ==
    /\ pc = "fetched"
    /\ ~PageIsEmpty(pageProducts)
    /\ idx' = 1
    /\ addedCount' = 0
    /\ pc' = "add"
    /\ UNCHANGED << maxProducts, outputJSON, products, seen, page, dom, pageProducts,
                    ret, stdout, exitCode, hist >>

\* Lines 96-99: the budget is exhausted in the middle of the page.
AddBudgetBreak ==
    /\ pc = "add"
    /\ idx <= Len(pageProducts)
    /\ BudgetExhausted(Len(products), maxProducts)
    /\ pc' = "check"
    /\ UNCHANGED << maxProducts, outputJSON, products, seen, page, dom, pageProducts,
                    idx, addedCount, ret, stdout, exitCode, hist >>

\* Lines 100-104: a URL not seen before is recorded and its product appended.
AddNew ==
    /\ pc = "add"
    /\ idx <= Len(pageProducts)
    /\ ~BudgetExhausted(Len(products), maxProducts)
    /\ ~SeenExists(seen, pageProducts[idx].url)
    /\ seen' = MarkSeen(seen, pageProducts[idx].url)
    /\ products' = AppendProduct(products, pageProducts[idx])
    /\ addedCount' = addedCount + 1
    /\ idx' = idx + 1
    /\ UNCHANGED << maxProducts, outputJSON, pc, page, dom, pageProducts, ret, stdout,
                    exitCode, hist >>

\* Line 100, exists: the product is skipped.
AddSkip ==
    /\ pc = "add"
    /\ idx <= Len(pageProducts)
    /\ ~BudgetExhausted(Len(products), maxProducts)
    /\ SeenExists(seen, pageProducts[idx].url)
    /\ idx' = idx + 1
    /\ UNCHANGED << maxProducts, outputJSON, pc, products, seen, page, dom, pageProducts,
                    addedCount, ret, stdout, exitCode, hist >>

\* Lines 96, 106: the range is used up; return addedCount.
AddDone ==
    /\ pc = "add"
    /\ idx > Len(pageProducts)
    /\ pc' = "check"
    /\ UNCHANGED << maxProducts, outputJSON, products, seen, page, dom, pageProducts,
                    idx, addedCount, ret, stdout, exitCode, hist >>

\* Lines 65-68: no new product on this page; report it and break.
NoNewStop ==
    /\ pc = "check"
    /\ ShouldStopNoNew(addedCount, Len(products))
    /\ stdout' = Append(stdout, NoNewMessage(page))
    /\ pc' = "return"
    /\ UNCHANGED << maxProducts, outputJSON, products, seen, page, dom, pageProducts,
                    idx, addedCount, ret, exitCode, hist >>

\* Line 70: page++ and back to the loop condition.
NextPage ==
    /\ pc = "check"
    /\ ~ShouldStopNoNew(addedCount, Len(products))
    /\ page' = IncPage(page)
    /\ pc' = "loop"
    /\ UNCHANGED << maxProducts, outputJSON, products, seen, dom, pageProducts,
                    idx, addedCount, ret, stdout, exitCode, hist >>

\* Line 73: return products, nil.
ReturnOk ==
    /\ pc = "return"
    /\ ret' = SuccessResult(products)
    /\ pc' = "returned"
    /\ UNCHANGED << maxProducts, outputJSON, products, seen, page, dom, pageProducts,
                    idx, addedCount, stdout, exitCode, hist >>

\* Lines 37-39: log.Fatalf writes to standard error and exits with status 1.
MainFatal ==
    /\ pc = "returned"
    /\ IsFatal(ret.err)
    /\ exitCode' = 1
    /\ pc' = "exited"
    /\ UNCHANGED << maxProducts, outputJSON, products, seen, page, dom, pageProducts,
                    idx, addedCount, ret, stdout, hist >>

\* Lines 41, 110-132: outputResults prints the catalog; main returns.
\* json.MarshalIndent cannot fail on a []Product (strings, an int, and a
\* float64 that was decoded from JSON and so is finite), so its log.Fatal
\* is not a step of the program.
MainOutput ==
    /\ pc = "returned"
    /\ ~IsFatal(ret.err)
    /\ stdout' = Append(stdout, outputResults(ret.products, outputJSON, maxProducts))
    /\ exitCode' = 0
    /\ pc' = "exited"
    /\ UNCHANGED << maxProducts, outputJSON, products, seen, page, dom, pageProducts,
                    idx, addedCount, ret, hist >>

Next ==
    \/ LoopExit
    \/ ExtractOk
    \/ ExtractFail
    \/ EmptyPageStop
    \/ AddEnter
    \/ AddBudgetBreak
    \/ AddNew
    \/ AddSkip
    \/ AddDone
    \/ NoNewStop
    \/ NextPage
    \/ ReturnOk
    \/ MainFatal
    \/ MainOutput

Spec == Init /\ [][Next]_vars

\* The program is one goroutine that keeps running until the process exits,
\* and every extractProductsFromPage call is taken to return.
FairSpec == Spec /\ WF_vars(Next)

\* ===================================================================== claims
Returned == pc \in {"returned", "exited"}
Succeeded == Returned /\ ~ret.err.failed
NoDuplicateUrl(s) == \A i, j \in DOMAIN s : i # j => s[i].url # s[j].url

\* C1 (uniqueness): no two records of the catalog, while it is accumulated and
\* when it is returned, share a URL.
C1_Uniqueness ==
    /\ NoDuplicateUrl(products)
    /\ Returned => NoDuplicateUrl(ret.products)

\* A successful run returned a catalog after a page that offered a URL of an
\* earlier page again and held one URL twice, while the budget still had room.
C1_Witness ==
    /\ Succeeded
    /\ ret.products # << >>
    /\ Len(ret.products) < maxProducts
    /\ \E i \in DOMAIN pageProducts : pageProducts[i].url \in UrlsOf(before)
    /\ \E i, j \in DOMAIN pageProducts : i < j /\ pageProducts[i].url = pageProducts[j].url

\* C2 (boundedness): in every state of a run, and in the returned result, the
\* catalog holds at most maxProducts records.
C2_Boundedness ==
    /\ Len(products) <= maxProducts
    /\ Returned => Len(ret.products) <= maxProducts

\* The budget ran out in the middle of a page whose next record is a new URL.
C2_Witness ==
    /\ pc = "check"
    /\ idx <= Len(pageProducts)
    /\ pageProducts[idx].url \notin seen
    /\ Len(products) = maxProducts

\* C3 (failure propagation): when the extraction of a page fails, the run
\* returns an error and an empty catalog, whatever was accumulated before.
C3_FailurePropagation ==
    (Returned /\ ~lastOk) => (ret.err.failed /\ ret.products = << >>)

\* The failing page came after pages that had put records in the catalog.
C3_Witness ==
    /\ pc = "returned"
    /\ ~lastOk
    /\ Len(calls) >= 2
    /\ products # << >>

\* C4 (termination): every run leaves the pagination loop: scrapeProducts
\* eventually returns.
C4_Termination == <>Returned

\* A run returned after a page that repeated earlier content and after which
\* the no-new-products message was printed.
C4_Witness ==
    /\ Returned
    /\ Len(calls) >= 2
    /\ \E i \in DOMAIN stdout : stdout[i].kind = "nonew"

\* C5 (empty-URL exclusion): no record of the catalog has an empty URL, though
\* rendered pages hold such records.
C5_EmptyUrlExclusion ==
    /\ \A i \in DOMAIN products : products[i].url # EmptyUrl
    /\ Returned => \A i \in DOMAIN ret.products : ret.products[i].url # EmptyUrl

\* A catalog was returned from a page whose first container had no link and
\* whose later container was admitted.
C5_Witness ==
    /\ Succeeded
    /\ ret.products # << >>
    /\ Len(dom) >= 2
    /\ dom[1].url = EmptyUrl
    /\ dom[2] = ret.products[Len(ret.products)]

\* Whether observation x came before observation y: an earlier call, or the
\* same call at an earlier position.
ObservedBefore(x, y) == x.call < y.call \/ (x.call = y.call /\ x.pos < y.pos)

InFirstSeenOrder(s) ==
    \A i, j \in DOMAIN s :
        i < j => /\ s[i].url \in DOMAIN firstAt
                 /\ s[j].url \in DOMAIN firstAt
                 /\ ObservedBefore(firstAt[s[i].url], firstAt[s[j].url])

\* C6 (order preservation): the catalog's records stand in the order in which
\* their URLs were first returned by the extractor.
C6_OrderPreservation ==
    /\ InFirstSeenOrder(products)
    /\ Succeeded => InFirstSeenOrder(ret.products)

\* A returned catalog holds records of two different pages, the later page
\* having also repeated a URL of the earlier one.
C6_Witness ==
    /\ Succeeded
    /\ Len(ret.products) >= 2
    /\ firstAt[ret.products[1].url].call < firstAt[ret.products[2].url].call
    /\ \E i \in DOMAIN pageProducts : pageProducts[i].url \in UrlsOf(before)

\* The URLs observed so far, in the order of their first observation.
FirstSeenOrder ==
    LET n == Cardinality(DOMAIN firstAt)
    IN  CHOOSE s \in [1..n -> DOMAIN firstAt] :
            \A i, j \in 1..n : i < j => ObservedBefore(firstAt[s[i]], firstAt[s[j]])

\* The first n elements of s (all of s when it is shorter).
FirstN(s, n) == [i \in 1..(IF n < Len(s) THEN n ELSE Len(s)) |-> s[i]]

\* The first-occurrence deduplication of all the records the calls returned.
Reference == [i \in DOMAIN FirstSeenOrder |-> firstAt[FirstSeenOrder[i]].rec]

\* C7 (reference result): a successful run returns the first maxProducts
\* records of the first-occurrence deduplication, by URL, of everything the
\* fetched pages returned, in page order.
C7_ReferenceResult == Succeeded => ret.products = FirstN(Reference, maxProducts)

\* The budget was cut in the middle of the second page: three URLs were
\* observed, the first page gave one record and the returned catalog two.
C7_Witness ==
    /\ Succeeded
    /\ maxProducts = 2
    /\ Len(calls) = 2
    /\ Len(before) = 1
    /\ Cardinality(DOMAIN firstAt) = 3
    /\ Len(ret.products) = 2

\* The last call returned a non-empty page none of whose URLs is new, while
\* the catalog already held records.
NoNewCase ==
    /\ calls # << >>
    /\ lastOk
    /\ pageProducts # << >>
    /\ before # << >>
    /\ UrlsOf(pageProducts) \subseteq UrlsOf(before)

\* C8 (no-new-records stop): once such a page has been processed the run is
\* on its way out with the catalog as it was before the page, returns it with
\* success, and has made no further call.
C8_NoNewStop ==
    (NoNewCase /\ pc \notin {"fetched", "add", "check"}) =>
        /\ pc \in {"return", "returned", "exited"}
        /\ products = before
        /\ calls[Len(calls)] = page
        /\ Returned => ret = SuccessResult(before)

C8_Witness == NoNewCase /\ pc = "returned" /\ Len(calls) = 2

\* The last call returned an empty list.
EmptyCase == calls # << >> /\ lastOk /\ pageProducts = << >>

\* C9 (empty-page stop): after an empty page the run is on its way out,
\* returns with success exactly the catalog of the earlier pages, and has made
\* no further call.
C9_EmptyPageStop ==
    (EmptyCase /\ pc # "fetched") =>
        /\ pc \in {"return", "returned", "exited"}
        /\ products = before
        /\ calls[Len(calls)] = page
        /\ Returned => ret = SuccessResult(before)

\* The empty page was a later page, reached with a non-empty catalog.
C9_Witness == EmptyCase /\ pc = "returned" /\ before # << >>

CatalogPrinted == \E i \in DOMAIN stdout : stdout[i].kind \in {"json", "text"}

\* C10 (exit behaviour): the process exits non-zero without printing a
\* catalog when scrapeProducts returned an error, and exits zero after
\* printing the returned catalog when it returned none.
C10_ExitBehaviour ==
    pc = "exited" =>
        IF ret.err.failed
        THEN exitCode # 0 /\ ~CatalogPrinted
        ELSE /\ exitCode = 0
             /\ stdout # << >>
             /\ stdout[Len(stdout)].kind \in {"json", "text"}
             /\ stdout[Len(stdout)].catalog = ret.products

\* The process exited on a failure of the second page, after the first page
\* had put records in the catalog.
C10_Witness ==
    /\ pc = "exited"
    /\ ret.err.failed
    /\ exitCode = 1
    /\ products # << >>

\* C11 (sequential pages, no retry): the k-th call of a run is for page k,
\* and after a failed call the run has returned without calling again.
C11_SequentialPages ==
    /\ \A k \in DOMAIN calls : calls[k] = k
    /\ ~lastOk => Returned

\* The second call of a run failed, after a first page that was processed.
C11_Witness == Len(calls) = 2 /\ ~lastOk /\ pc = "exited" /\ before # << >>

\* C12 (no fetch once the budget is full): every call was made with fewer
\* than maxProducts records in the catalog; a run whose catalog reached
\* maxProducts returns it with success, exactly maxProducts long; with a
\* budget of 0 no call is made and the empty catalog is returned.
C12_NoFetchWhenFull ==
    /\ calls # << >> => Len(before) < maxProducts
    /\ (Returned /\ Len(products) >= maxProducts) =>
           (ret = SuccessResult(products) /\ Len(ret.products) = maxProducts)
    /\ maxProducts = 0 => (calls = << >> /\ ret = SuccessResult(<< >>))

\* A run with a budget of 2 filled its catalog on the second page and returned.
C12_Witness ==
    /\ pc = "returned"
    /\ maxProducts = 2
    /\ Len(calls) = 2
    /\ Len(products) = 2
    /\ Len(before) = 1

\* C13 (dedup-set consistency): in every state seen is exactly the set of the
\* URLs of the catalog's records; a URL dropped because the budget was
\* exhausted is not in it.
C13_SeenIsCatalogUrls == seen = UrlsOf(products)

\* A page returned a URL that the budget kept out of the catalog, and the run
\* went on to return.
C13_Witness ==
    /\ Succeeded
    /\ seen # {}
    /\ \E u \in DOMAIN firstAt : u \notin seen

IsPrefix(s, t) == Len(s) <= Len(t) /\ \A i \in DOMAIN s : s[i] = t[i]

\* C14 (append-only catalog): every step leaves the accumulated catalog as it
\* was or extends it at the end, so the catalog of an earlier state is a
\* prefix of the catalog of every later state.
C14_AppendOnly == [][IsPrefix(products, products')]_vars

\* The catalog grew on the first page and again on the second.
C14_Witness ==
    /\ Len(calls) = 2
    /\ before # << >>
    /\ Len(products) > Len(before)
    /\ IsPrefix(before, products)

\* C15 (failing page identified): the error a failed run returns names the
\* page of the call that failed, which is 1 plus the number of calls that
\* succeeded before it.
C15_FailingPageIdentified ==
    (Returned /\ ret.err.failed) =>
        /\ ~lastOk
        /\ ret.err.page = calls[Len(calls)]
        /\ ret.err.cause = calls[Len(calls)]
        /\ ret.err.page = 1 + (Len(calls) - 1)

\* A run failed on its second page.
C15_Witness == pc = "returned" /\ ret.err.failed /\ ret.err.page = 2

\* C16 (progress per page): call number p is made with at least p - 1 records
\* in the catalog, so a run with a budget of at least 1 makes at most
\* maxProducts calls.
C16_ProgressPerPage ==
    /\ calls # << >> => Len(before) >= calls[Len(calls)] - 1
    /\ calls # << >> => Len(before) >= Len(calls) - 1
    /\ maxProducts >= 1 => Len(calls) <= maxProducts

\* A run with a budget of 2 made its second, last allowed call with one record.
C16_Witness ==
    /\ maxProducts = 2
    /\ Len(calls) = maxProducts
    /\ Len(before) = 1
    /\ pc = "fetched"

\* C17 (no-new stop never on an empty catalog): after a non-empty page was
\* processed the catalog is not empty; the no-new-products stop happens on
\* page 2 or later; a successful run returns an empty catalog only with a
\* budget of 0 or after an empty first page.
C17_NoNewStopNeedsCatalog ==
    /\ pc = "check" => ~(addedCount = 0 /\ products = << >>)
    /\ \A i \in DOMAIN stdout : stdout[i].kind = "nonew" => stdout[i].page >= 2
    /\ (Succeeded /\ ret.products = << >>) =>
           \/ maxProducts = 0
           \/ (calls = << 1 >> /\ lastOk /\ pageProducts = << >>)

\* A page holding one URL twice was processed on an empty catalog and added
\* one record.
C17_Witness ==
    /\ pc = "check"
    /\ before = << >>
    /\ addedCount = 1
    /\ Len(pageProducts) = 2
    /\ pageProducts[1].url = pageProducts[2].url

=============================================================================
